---- MODULE Spec2Model ----
(***************************************************************************)
(* Model of routes.py: the /extract-metadata/ handler, its credential      *)
(* acquirer get_cookies, the per-format cookie parser format_cookies and   *)
(* the format filter.                                                      *)
(*                                                                         *)
(* Python strings are sequences of atoms (short literal pieces), so that   *)
(* split, lower, endswith and "in" are computed rather than assumed.       *)
(* Python values that may be None or a missing dict key are records        *)
(* [t, s] with t in {"str", "num", "None", "missing"}.                     *)
(***************************************************************************)
EXTENDS Integers, Sequences, FiniteSets, TLC

VARIABLES
    cookies_str,      \* format_cookies: the argument
    cookies,          \* format_cookies: the returned value
    info,             \* extract_metadata: what ydl.extract_info returned
    result,           \* extract_metadata: outcome of the try block for info
    pc,               \* per request: position of the handler coroutine
    platform,         \* per request: query parameter platform
    video_url,        \* per request: query parameter video_url
    refresh_cookies,  \* refresh_cookies flag in the query string of the request last
                      \* received; the handler declares no such parameter
    acquirerCalls,    \* per request: number of get_cookies calls made so far
    files,            \* the cookie files on disk, by path
    reply             \* the response most recently sent, with what led to it

vars == <<cookies_str, cookies, info, result, pc, platform, video_url,
          refresh_cookies, acquirerCalls, files, reply>>

----------------------------------------------------------------------------
(* Bounds                                                                  *)

MaxLen == 5          \* longest cookie string explored, in atoms
MaxFormats == 1      \* longest raw catalog explored
NumReqs == 2         \* request slots that can be in flight together

----------------------------------------------------------------------------
(* Python values                                                           *)

PyStr(s) == [t |-> "str", s |-> s]
PyNone == [t |-> "None", s |-> <<>>]
PyMissing == [t |-> "missing", s |-> <<>>]

\* dict.get(key): a missing key reads as None
Get(fmt, key) == IF fmt[key].t = "missing" THEN PyNone ELSE fmt[key]

\* dict.get(key, default): only a missing key reads as the default
GetDefault(fmt, key, default) == IF fmt[key].t = "missing" THEN default ELSE fmt[key]

PyNum(n) == [t |-> "num", s |-> <<n>>]

\* truth value: None, "" and 0 are false
Truthy(v) == (v.t = "str" /\ v.s # <<>>) \/ (v.t = "num" /\ v.s # <<"0">>)

\* a or b
PyOr(a, b) == IF Truthy(a) THEN a ELSE b

\* str.lower(), atom by atom
LowerAtom(a) ==
    CASE a = "Domain" -> "domain"
      [] a = "Secure" -> "secure"
      [] a = "TikTok.com" -> "tiktok.com"
      [] OTHER -> a

Lower(s) == [i \in 1..Len(s) |-> LowerAtom(s[i])]

\* s.endswith(suffix)
EndsWith(s, suffix) ==
    /\ Len(s) >= Len(suffix)
    /\ SubSeq(s, Len(s) - Len(suffix) + 1, Len(s)) = suffix

\* sub in s, for a one-atom sub
Contains(s, sub) == \E i \in 1..Len(s) : s[i] = sub

----------------------------------------------------------------------------
(* format_cookies                                                          *)

Sep == "; "
Eq == "="

\* s.split("; ")
RECURSIVE Split(_)
Split(s) ==
    IF Contains(s, Sep)
    THEN LET i == CHOOSE k \in 1..Len(s) :
                      s[k] = Sep /\ \A j \in 1..(k - 1) : s[j] # Sep
         IN <<SubSeq(s, 1, i - 1)>> \o Split(SubSeq(s, i + 1, Len(s)))
    ELSE <<s>>

\* part.split("=", 1)
SplitEq(part) ==
    LET i == CHOOSE k \in 1..Len(part) :
                 part[k] = Eq /\ \A j \in 1..(k - 1) : part[j] # Eq
    IN [name |-> SubSeq(part, 1, i - 1), value |-> SubSeq(part, i + 1, Len(part))]

ReservedKeys == {<<"domain">>, <<"path">>, <<"secure">>, <<"expires">>}

\* dict values: a string, or the boolean True
DictStr(s) == <<"str", s>>
DictTrue == <<"bool", <<"True">>>>

\* cookies[key] = value
DictSet(d, key, value) == {e \in d : e[1] # key} \cup {<<key, value>>}

\* the test written as "current_name is not None"
HasCurrentName_NotNone(current_name) == current_name.t = "str"

\* the truth test "if current_name:" (None and "" are both false)
HasCurrentName(current_name) == current_name.t = "str" /\ current_name.s # <<>>

\* one iteration of the loop over parts; st = [cookies, current_name]
CookieStep(st, part) ==
    IF Contains(part, Eq)
    THEN LET nv == SplitEq(part)
         IN IF Lower(nv.name) \notin ReservedKeys
            THEN [cookies |-> DictSet(st.cookies, nv.name, DictStr(nv.value)),
                  current_name |-> PyStr(nv.name)]
            ELSE st
    ELSE IF Lower(part) = <<"secure">>
         THEN IF HasCurrentName(st.current_name)
              THEN [cookies |-> DictSet(st.cookies,
                                        st.current_name.s \o <<"_secure">>,
                                        DictTrue),
                    current_name |-> st.current_name]
              ELSE st
         ELSE st

RECURSIVE CookieLoop(_, _)
CookieLoop(st, parts) ==
    IF parts = <<>> THEN st
    ELSE CookieLoop(CookieStep(st, Head(parts)), Tail(parts))

NoDict == [t |-> "None", d |-> {}]
PyDict(d) == [t |-> "dict", d |-> d]
Pending == [t |-> "pending", d |-> {}]

\* format_cookies(cookies_str)
format_cookies(str) ==
    IF ~Truthy(str) THEN NoDict
    ELSE PyDict(CookieLoop([cookies |-> {}, current_name |-> PyNone],
                           Split(str.s)).cookies)

----------------------------------------------------------------------------
(* extract_metadata: the try block, from the engine's catalog to a response *)

NoneCodec == PyStr(<<"none">>)
AudioOnly == PyStr(<<"audio only">>)

\* the codec half of the comprehension's condition
CodecRule(fmt) ==
    \/ (Get(fmt, "ext") = PyStr(<<"mp4">>) /\ Get(fmt, "vcodec") # NoneCodec)
    \/ (Get(fmt, "acodec") # NoneCodec /\ Get(fmt, "vcodec") = NoneCodec)

\* fmt.get("url", "").endswith(".m3u8") is evaluated only when the codec half
\* holds, and raises AttributeError when the url key holds None
UrlRaises(fmt) == CodecRule(fmt) /\ GetDefault(fmt, "url", PyStr(<<>>)).t # "str"

Retained(fmt) ==
    /\ CodecRule(fmt)
    /\ ~EndsWith(GetDefault(fmt, "url", PyStr(<<>>)).s, <<".m3u8">>)

\* has_audio derived from a codec being there at all
HasAudio_Present(fmt) ==
    Get(fmt, "acodec").t = "str" /\ Get(fmt, "acodec") # NoneCodec

\* fmt.get("acodec") != "none"
HasAudio(fmt) == Get(fmt, "acodec") # NoneCodec

\* fmt.get("vcodec") != "none"
HasVideo(fmt) == Get(fmt, "vcodec") # NoneCodec

\* the dict built for a retained descriptor
NormalizedFormat(fmt) ==
    [format_id |-> Get(fmt, "format_id"),
     resolution |-> IF Get(fmt, "vcodec") # NoneCodec
                    THEN GetDefault(fmt, "resolution", AudioOnly)
                    ELSE AudioOnly,
     url |-> Get(fmt, "url"),
     has_audio |-> HasAudio(fmt),
     has_video |-> HasVideo(fmt),
     bitrate |-> Get(fmt, "abr"),
     audio_codec |-> Get(fmt, "acodec"),
     ext |-> Get(fmt, "ext"),
     file_size |-> PyOr(Get(fmt, "filesize"), Get(fmt, "filesize_approx")),
     cookies |-> format_cookies(Get(fmt, "cookies"))]

\* indices of the catalog that the comprehension retains, in catalog order
RECURSIVE KeptFrom(_, _)
KeptFrom(formats, i) ==
    IF i > Len(formats) THEN <<>>
    ELSE (IF Retained(formats[i]) THEN <<i>> ELSE <<>>) \o KeptFrom(formats, i + 1)

\* str.capitalize() of the engine's extractor key
Capitalize(s) ==
    CASE s = <<"TikTok">> -> <<"Tiktok">>
      [] s = <<"Unknown Platform">> -> <<"Unknown platform">>
      [] OTHER -> s

Http(status, detail) == [status |-> status, detail |-> detail, body |-> <<>>, kept |-> <<>>]

\* the handler answering 400 without the engine's text
ExtractionFailure_NoText(errtext) == Http(400, <<"Error processing video">>)

\* raise HTTPException(status_code=400, detail=f"Error processing video: {str(e)}")
ExtractionFailure(errtext) == Http(400, <<"Error processing video: ", errtext>>)

\* lines 186-235 once ydl.extract_info has returned info
ProcessInfo(i) ==
    IF \E k \in 1..Len(i.formats) : UrlRaises(i.formats[k])
    THEN ExtractionFailure("'NoneType' object has no attribute 'endswith'")
    ELSE LET kept == KeptFrom(i.formats, 1)
         IN [status |-> 200,
             detail |-> <<>>,
             body |-> <<[platform |-> Capitalize(GetDefault(i, "extractor_key",
                                                  PyStr(<<"Unknown Platform">>)).s),
                         title |-> GetDefault(i, "title", PyStr(<<"Unknown Title">>)),
                         duration |-> Get(i, "duration"),
                         thumbnail |-> Get(i, "thumbnail"),
                         formats |-> [n \in 1..Len(kept) |->
                                          NormalizedFormat(i.formats[kept[n]])]]>>,
             kept |-> kept]

NoResult == Http(0, <<>>)
NoInfo == [extractor_key |-> PyMissing, title |-> PyMissing, duration |-> PyMissing,
           thumbnail |-> PyMissing, formats |-> <<>>]

----------------------------------------------------------------------------
(* get_cookies and the handler's use of cookies.txt                        *)

Reqs == 1..NumReqs

Platforms == {"tiktok", "youtube", "facebook"}

VideoUrls ==
    {<<>>,
     <<"https://www.", "TikTok.com", "/@user/video/1">>,
     <<"https://", "fb.watch", "/abc">>}

\* the allow-list with one platform forgotten
RequiresCredentials_TiktokOnly(p) == p = "tiktok"

\* if platform == "tiktok" or platform == "youtube"
RequiresCredentials(p) == p = "tiktok" \/ p = "youtube"

\* the domain test without lower()
UrlNeedsCookies_CaseSensitive(url) ==
    \E domain \in {"tiktok.com", "youtube.com", "youtu.be"} : Contains(url, domain)

\* any(domain in video_url.lower() for domain in [...])
UrlNeedsCookies(url) ==
    \E domain \in {"tiktok.com", "youtube.com", "youtu.be"} : Contains(Lower(url), domain)

\* the path the handler names in the cookiefile option
COOKIE_FILE == "cookies.txt"

\* the path get_cookies writes for a platform: the handler never passes
\* cookie_file, so the default applies whatever the platform
ArtifactPath(p) == "cookies.txt"

Header == <<"# Netscape HTTP Cookie File">>

CookieLine(p, c) ==
    <<IF p = "tiktok" THEN ".tiktok.com" ELSE ".youtube.com",
      "TRUE", "/", "FALSE", "expiration", c.name, c.value>>

\* cookies.items() reads each name back with cookies[name], which raises
\* CookieConflict for a name the jar holds more than once: the index of the
\* first such cookie, 0 when the iteration runs to the end
ConflictAt(jar) ==
    LET dup(k) == \E j \in 1..Len(jar) : j # k /\ jar[j].name = jar[k].name
    IN IF \E k \in 1..Len(jar) : dup(k)
       THEN CHOOSE k \in 1..Len(jar) : dup(k) /\ \A j \in 1..(k - 1) : ~dup(j)
       ELSE 0

\* open(cookie_file, "w") truncates, the header and one line per cookie
\* follow; an exception in the loop leaves what was written so far.
\* writer and complete record which call wrote the file and whether its
\* loop ran to the end.
WriteCookies(p, jar) ==
    LET k == ConflictAt(jar)
        n == IF k = 0 THEN Len(jar) ELSE k - 1
    IN [exists |-> TRUE,
        lines |-> <<Header>> \o [i \in 1..n |-> CookieLine(p, jar[i])],
        writer |-> p,
        complete |-> k = 0]

NoFile == [exists |-> FALSE, lines |-> <<>>, writer |-> "", complete |-> TRUE]

Paths == {COOKIE_FILE} \cup {ArtifactPath(p) : p \in Platforms}

Sid == [name |-> "sid", value |-> "1", path |-> "/"]
SidApi == [name |-> "sid", value |-> "2", path |-> "/api"]

\* cookie jars a response can carry
Jars == {<<Sid>>, <<Sid, SidApi>>}

\* how client.get ends
GetOutcomes ==
    {[kind |-> "RequestError", jar |-> <<>>], [kind |-> "Exception", jar |-> <<>>]}
        \cup {[kind |-> "response", jar |-> j] : j \in Jars}

\* raise HTTPException(500, detail="Cookie generation failed")
CookieFailure == Http(500, <<"Cookie generation failed">>)

\* an exception that leaves the handler is answered by the server with a
\* plain 500
Unhandled == Http(500, <<"Internal Server Error">>)

GoodMp4 ==
    [format_id |-> PyStr(<<"18">>), resolution |-> PyStr(<<"720p">>),
     url |-> PyStr(<<"https://cdn/v", ".mp4">>), vcodec |-> PyStr(<<"h264">>),
     acodec |-> PyStr(<<"aac">>), abr |-> PyNone, ext |-> PyStr(<<"mp4">>),
     filesize |-> PyNum("100"), filesize_approx |-> PyNum("200"), cookies |-> PyNone]

InfoHead(formats) ==
    [extractor_key |-> PyStr(<<"TikTok">>), title |-> PyStr(<<"clip">>),
     duration |-> PyNone, thumbnail |-> PyMissing, formats |-> formats]

\* how ydl.extract_info ends
EngineOutcomes ==
    {[kind |-> "raised", err |-> "Unsupported URL", info |-> NoInfo],
     [kind |-> "returned", err |-> "", info |-> InfoHead(<<GoodMp4>>)]}

NotRead == NoFile

NoReply ==
    [platform |-> "", video_url |-> <<>>,
     acquire |-> "", acquirerCalls |-> 0, engineCalls |-> 0, engine |-> "",
     cookiefile |-> FALSE, read |-> NotRead, response |-> NoResult]

\* lines 161-235: the options, the engine call and the response.
\* The engine loads the file named by the cookiefile option.
RunEngine(p, u, acq, calls, o) ==
    [platform |-> p, video_url |-> u,
     acquire |-> acq, acquirerCalls |-> calls,
     engineCalls |-> 1, engine |-> o.kind,
     cookiefile |-> UrlNeedsCookies(u),
     read |-> IF UrlNeedsCookies(u) THEN files[COOKIE_FILE] ELSE NotRead,
     response |-> IF o.kind = "raised" THEN ExtractionFailure(o.err)
                  ELSE ProcessInfo(o.info)]

\* a request that ended before the engine was reached
Aborted(p, u, acq, calls, resp) ==
    [platform |-> p, video_url |-> u,
     acquire |-> acq, acquirerCalls |-> calls,
     engineCalls |-> 0, engine |-> "",
     cookiefile |-> FALSE, read |-> NotRead, response |-> resp]

Idle(r) ==
    /\ pc' = [pc EXCEPT ![r] = "idle"]
    /\ platform' = [platform EXCEPT ![r] = ""]
    /\ video_url' = [video_url EXCEPT ![r] = <<>>]
    /\ acquirerCalls' = [acquirerCalls EXCEPT ![r] = 0]

PureIdle ==
    /\ pc = [r \in Reqs |-> "idle"]
    /\ platform = [r \in Reqs |-> ""]
    /\ video_url = [r \in Reqs |-> <<>>]
    /\ refresh_cookies = FALSE
    /\ acquirerCalls = [r \in Reqs |-> 0]
    /\ reply = NoReply

\* a request arrives and the handler runs to its first suspension:
\* the GET inside get_cookies, or the end of the handler
Start(r) ==
    /\ pc[r] = "idle"
    /\ \E p \in Platforms, u \in VideoUrls, f \in BOOLEAN :
        IF RequiresCredentials(p)
        THEN IF ~Truthy(PyStr(u))
             THEN \* get_cookies raises ValueError("URL must be provided.")
                  /\ reply' = Aborted(p, u, "raised", 1, Unhandled)
                  /\ refresh_cookies' = f
                  /\ UNCHANGED <<pc, platform, video_url, acquirerCalls>>
             ELSE /\ pc' = [pc EXCEPT ![r] = "get"]
                  /\ platform' = [platform EXCEPT ![r] = p]
                  /\ video_url' = [video_url EXCEPT ![r] = u]
                  /\ refresh_cookies' = f
                  /\ acquirerCalls' = [acquirerCalls EXCEPT ![r] = 1]
                  /\ UNCHANGED reply
        ELSE /\ \E o \in EngineOutcomes : reply' = RunEngine(p, u, "", 0, o)
             /\ refresh_cookies' = f
             /\ UNCHANGED <<pc, platform, video_url, acquirerCalls>>
    /\ UNCHANGED <<files, cookies_str, cookies, info, result>>

\* client.get ends and get_cookies runs to its return; on success the
\* coroutine is next suspended leaving "async with"
GetResponds(r) ==
    /\ pc[r] = "get"
    /\ \E g \in GetOutcomes :
        LET p == platform[r]
            u == video_url[r]
            n == acquirerCalls[r]
            written == WriteCookies(p, g.jar)
        IN CASE g.kind = "RequestError" ->
                  /\ reply' = Aborted(p, u, "False", n, CookieFailure)
                  /\ Idle(r)
                  /\ UNCHANGED files
             [] g.kind = "Exception" ->
                  /\ reply' = Aborted(p, u, "None", n, CookieFailure)
                  /\ Idle(r)
                  /\ UNCHANGED files
             [] g.kind = "response" /\ ~written.complete ->
                  /\ files' = [files EXCEPT ![ArtifactPath(p)] = written]
                  /\ reply' = Aborted(p, u, "None", n, CookieFailure)
                  /\ Idle(r)
             [] OTHER ->
                  /\ files' = [files EXCEPT ![ArtifactPath(p)] = written]
                  /\ pc' = [pc EXCEPT ![r] = "aexit"]
                  /\ UNCHANGED <<platform, video_url, acquirerCalls, reply>>
    /\ UNCHANGED <<refresh_cookies, cookies_str, cookies, info, result>>

\* get_cookies returned True: options, engine call, response
Extract(r) ==
    /\ pc[r] = "aexit"
    /\ \E o \in EngineOutcomes :
        reply' = RunEngine(platform[r], video_url[r], "True", acquirerCalls[r], o)
    /\ Idle(r)
    /\ UNCHANGED <<refresh_cookies, files, cookies_str, cookies, info, result>>

OldFile == WriteCookies("youtube", <<Sid>>)

Init ==
    /\ PureIdle
    /\ files \in [Paths -> {NoFile, OldFile}]
    /\ cookies_str = PyNone /\ cookies = Pending
    /\ info = NoInfo /\ result = NoResult

Next == \E r \in Reqs : Start(r) \/ GetResponds(r) \/ Extract(r)

Spec == Init /\ [][Next]_vars

----------------------------------------------------------------------------
(* format_cookies on its own                                               *)

Atoms == {Sep, Eq, "a", "b", "1", "Domain", "secure", "Secure"}

SpecExample ==
    <<"a", Eq, "1", Sep, "Domain", Eq, "x.com", Sep, "secure", Sep, "b", Eq, "2">>

CookieStrings ==
    {PyNone} \cup {PyStr(s) : s \in UNION {[1..n -> Atoms] : n \in 0..MaxLen}}
             \cup {PyStr(SpecExample)}

InitCookies ==
    /\ cookies_str \in CookieStrings
    /\ cookies = Pending
    /\ PureIdle /\ files = [path \in Paths |-> NoFile]
    /\ info = NoInfo /\ result = NoResult

FormatCookies ==
    /\ cookies = Pending
    /\ cookies' = format_cookies(cookies_str)
    /\ UNCHANGED <<cookies_str, info, result, pc, platform, video_url,
                   refresh_cookies, acquirerCalls, files, reply>>

SpecCookies == InitCookies /\ [][FormatCookies]_vars

----------------------------------------------------------------------------
(* the try block of extract_metadata on its own                            *)

Descriptors ==
    [format_id : {PyStr(<<"18">>)},
     resolution : {PyMissing, PyStr(<<"720p">>)},
     url : {PyMissing, PyNone, PyStr(<<"https://cdn/v", ".mp4">>),
            PyStr(<<"https://cdn/v", ".m3u8">>)},
     vcodec : {PyMissing, NoneCodec, PyStr(<<"h264">>)},
     acodec : {PyNone, NoneCodec, PyStr(<<"aac">>)},
     abr : {PyNone},
     ext : {PyNone, PyStr(<<"mp4">>), PyStr(<<"webm">>)},
     filesize : {PyNone, PyNum("100")},
     filesize_approx : {PyNum("200")},
     cookies : {PyNone, PyStr(<<"a", Eq, "1", Sep, "secure">>)}]

Infos == {InfoHead(fs) : fs \in UNION {[1..n -> Descriptors] : n \in 0..MaxFormats}}

InitFilter ==
    /\ info \in Infos
    /\ result = NoResult
    /\ PureIdle /\ files = [path \in Paths |-> NoFile]
    /\ cookies_str = PyNone /\ cookies = Pending

Classify ==
    /\ result = NoResult
    /\ result' = ProcessInfo(info)
    /\ UNCHANGED <<info, cookies_str, cookies, pc, platform, video_url,
                   refresh_cookies, acquirerCalls, files, reply>>

SpecFilter == InitFilter /\ [][Classify]_vars

----------------------------------------------------------------------------
(* Properties of the format filter (SpecFilter)                            *)

\* a codec is present in the claims' sense: neither absent nor "none"
CodecPresent(c) == c.t = "str" /\ c # PyStr(<<"none">>)

UrlIsPlaylist(fmt) == fmt.url.t = "str" /\ EndsWith(fmt.url.s, <<".m3u8">>)

ClaimedRetained(fmt) ==
    /\ ~UrlIsPlaylist(fmt)
    /\ \/ (fmt.ext = PyStr(<<"mp4">>) /\ CodecPresent(fmt.vcodec))
       \/ (CodecPresent(fmt.acodec) /\ ~CodecPresent(fmt.vcodec))

IsKept(i) == \E n \in 1..Len(result.kept) : result.kept[n] = i

\* C1: a raw descriptor is retained if and only if its URL does not end in
\* ".m3u8" and either its extension is mp4 and a video codec is present
\* (neither absent nor "none"), or an audio codec is present and no video
\* codec is present.
C1_FormatFilter ==
    result # NoResult =>
        \A i \in 1..Len(info.formats) : IsKept(i) <=> ClaimedRetained(info.formats[i])

\* C4 as amended: for every retained descriptor has_audio is true exactly
\* when the audio codec is not the "none" sentinel, an absent codec giving
\* true, and has_video likewise from the video codec, each on its own.
C4_FlagsFromSentinel ==
    result.status = 200 =>
        \A n \in 1..Len(result.kept) :
            LET fmt == info.formats[result.kept[n]]
                out == result.body[1].formats[n]
            IN /\ out.has_audio = (fmt.acodec # PyStr(<<"none">>))
               /\ out.has_video = (fmt.vcodec # PyStr(<<"none">>))

\* C4 as stated: has_audio (has_video) is true exactly when the audio
\* (video) codec is neither absent nor the "none" sentinel.
C4_FlagsFromPresence ==
    result.status = 200 =>
        \A n \in 1..Len(result.kept) :
            LET fmt == info.formats[result.kept[n]]
                out == result.body[1].formats[n]
            IN /\ out.has_audio = CodecPresent(fmt.acodec)
               /\ out.has_video = CodecPresent(fmt.vcodec)

\* a retained descriptor without an audio codec, reported with audio, and
\* a retained audio-only descriptor reported without video
C4_Witness ==
    /\ result.status = 200
    /\ \E n \in 1..Len(result.kept) :
        LET fmt == info.formats[result.kept[n]]
            out == result.body[1].formats[n]
        IN \/ (fmt.acodec = PyNone /\ out.has_audio /\ out.has_video)
           \/ (fmt.vcodec = PyStr(<<"none">>) /\ out.has_audio /\ ~out.has_video)

\* C9: whatever fields the descriptors of a catalog lack, classification
\* completes and the request returns a VideoMetadata with status 200.
C9_AbsenceNeverError ==
    result # NoResult => (result.status = 200 /\ Len(result.body) = 1)

----------------------------------------------------------------------------
(* Properties of format_cookies (SpecCookies)                              *)

Parts == Split(cookies_str.s)
KeyOf(i) == SplitEq(Parts[i]).name
IsCookie(i) ==
    /\ Contains(Parts[i], Eq)
    /\ Lower(KeyOf(i)) \notin {<<"domain">>, <<"path">>, <<"secure">>, <<"expires">>}
IsBareSecure(i) == ~Contains(Parts[i], Eq) /\ Lower(Parts[i]) = <<"secure">>
SeenBy(i) == {j \in 1..i : IsCookie(j)}
LastSeen(i) == CHOOSE j \in SeenBy(i) : \A k \in SeenBy(i) : k <= j

\* what segment i stores, as a set of at most one entry; a bare secure
\* flags the most recently seen name, when allowEmpty or when that name is
\* not empty
Stores(i, allowEmpty) ==
    IF IsCookie(i) THEN {<<KeyOf(i), <<"str", SplitEq(Parts[i]).value>>>>}
    ELSE IF /\ IsBareSecure(i)
            /\ SeenBy(i) # {}
            /\ (allowEmpty \/ KeyOf(LastSeen(i)) # <<>>)
         THEN {<<KeyOf(LastSeen(i)) \o <<"_secure">>, <<"bool", <<"True">>>>>>}
         ELSE {}

\* the mapping the segments describe: for each key, what the last segment
\* storing under it stored
Described(allowEmpty) ==
    IF cookies_str.t # "str" \/ cookies_str.s = <<>>
    THEN [t |-> "None", d |-> {}]
    ELSE [t |-> "dict",
          d |-> UNION {{e \in Stores(i, allowEmpty) :
                           \A j \in (i + 1)..Len(Parts) :
                               \A l \in Stores(j, allowEmpty) : l[1] # e[1]}
                       : i \in 1..Len(Parts)}]

\* C8 as amended: name=value segments with a non-reserved key store
\* name->value and become the current name; reserved keys store nothing and
\* leave the current name alone; a bare secure stores <current name>_secure
\* = true unless no name has been seen or the current name is the empty
\* string; other segments are ignored; absent or empty input gives an
\* absent result.
C8_ParserRules == cookies # Pending => cookies = Described(FALSE)

\* C8 as stated: a bare secure stores <current name>_secure = true for
\* the most recently seen name, whatever that name is.
C8_ParserRulesAnyName == cookies # Pending => cookies = Described(TRUE)

\* the example of the claim, and a reserved key met before any name
C8_Witness ==
    \/ /\ cookies_str = PyStr(SpecExample)
       /\ cookies = PyDict({<<<<"a">>, <<"str", <<"1">>>>>>,
                            <<<<"a", "_secure">>, <<"bool", <<"True">>>>>>,
                            <<<<"b">>, <<"str", <<"2">>>>>>})
    \/ /\ cookies_str = PyStr(<<"Domain", Eq, "a", Sep, "secure">>)
       /\ cookies = PyDict({})

----------------------------------------------------------------------------
(* Properties of the handler (Spec)                                        *)

Allowed == {"tiktok", "youtube"}

\* request r takes its first step: it is suspended in the GET, or it has
\* already been answered
Suspends(r) == pc[r] = "idle" /\ pc'[r] = "get"
AnsweredAtOnce == pc' = pc /\ reply' # reply

\* C2 as amended: before the engine is invoked the acquirer is invoked
\* exactly once when the platform is tiktok or youtube, and not at all
\* otherwise, whether or not an artifact exists or a refresh was asked for.
C2_AcquireByPlatform ==
    /\ \A r \in Reqs : pc[r] # "idle" => (platform[r] \in Allowed /\ acquirerCalls[r] = 1)
    /\ reply # NoReply =>
          reply.acquirerCalls = (IF reply.platform \in Allowed THEN 1 ELSE 0)

\* C2 as stated: the acquirer is invoked exactly when the platform
\* requires credentials and (a refresh was forced or no artifact exists).
C2_RefreshPolicy ==
    [][/\ \A r \in Reqs :
            Suspends(r) =>
                (acquirerCalls'[r] = 1 <=>
                    (platform'[r] \in Allowed
                         /\ (refresh_cookies' \/ ~files[ArtifactPath(platform'[r])].exists)))
       /\ AnsweredAtOnce =>
            (reply'.acquirerCalls = 1 <=>
                (reply'.platform \in Allowed
                     /\ (refresh_cookies' \/ ~files[COOKIE_FILE].exists)))]_vars

\* the acquirer has been invoked although the artifact exists and no
\* refresh was asked for
C2_Witness ==
    /\ reply = NoReply
    /\ ~refresh_cookies
    /\ files[COOKIE_FILE].exists
    /\ \E r \in Reqs : /\ pc[r] = "get" /\ acquirerCalls[r] = 1
                       /\ \A q \in Reqs \ {r} : pc[q] = "idle"

AcquisitionFailed == reply.acquire \in {"False", "None", "raised"}

\* C3: when acquisition fails, by a failure result or by an exception, the
\* request ends with status 500 and the message "Cookie generation failed",
\* the engine is not invoked and the acquirer is not invoked again.
C3_AcquisitionFailure ==
    AcquisitionFailed =>
        /\ reply.response.status = 500
        /\ reply.response.detail = <<"Cookie generation failed">>
        /\ reply.engineCalls = 0
        /\ reply.acquirerCalls = 1

\* C5: when the engine raises, the request ends with status 400 and a
\* message that embeds the engine's text, without metadata, the engine
\* having been invoked once.
C5_EngineRaise ==
    reply.engine = "raised" =>
        /\ reply.response.status = 400
        /\ reply.response.detail = <<"Error processing video: ", "Unsupported URL">>
        /\ reply.response.body = <<>>
        /\ reply.engineCalls = 1

C5_Witness ==
    /\ reply.engine = "raised"
    /\ reply.response.status = 400
    /\ reply.acquire = "True"

\* C6: the engine never reads a partially written cookie file.
C6_NoPartialRead == reply.cookiefile => reply.read.complete

\* C7 as amended: for a platform other than tiktok and youtube the acquirer
\* is not invoked, and the options name the cookie file exactly when the
\* lower-cased video URL contains tiktok.com, youtube.com or youtu.be.
C7_CookiefileByUrl ==
    (reply # NoReply /\ reply.platform \notin Allowed) =>
        /\ reply.acquirerCalls = 0
        /\ reply.engineCalls = 1
        /\ reply.cookiefile <=>
              (reply.video_url = <<"https://www.", "TikTok.com", "/@user/video/1">>)

\* C7 as stated: for such a platform the acquirer is not invoked and the
\* options never name the cookie file, whatever the video URL.
C7_NeverConsulted ==
    (reply # NoReply /\ reply.platform \notin Allowed) =>
        /\ reply.acquirerCalls = 0
        /\ ~reply.cookiefile

C7_Witness ==
    /\ reply.platform = "facebook"
    /\ reply.engineCalls = 1
    /\ reply.cookiefile
    /\ reply.acquirerCalls = 0

\* C10: an acquisition for one platform leaves the artifact of every other
\* platform unchanged, and the artifact the engine reads for a request on
\* tiktok or youtube was last written by an acquisition for that platform.
C10_PerPlatformArtifacts ==
    /\ [](reply.platform \in Allowed /\ reply.cookiefile
              => reply.read.writer = reply.platform)
    /\ [][\A r \in Reqs :
            (pc[r] = "get" /\ pc'[r] # "get") =>
                \A q \in Allowed \ {platform[r]} :
                    files'[ArtifactPath(q)] = files[ArtifactPath(q)]]_vars

====
